---- MODULE Spec2Model ----
(***************************************************************************)
(* EMGdecomPy, src/emgdecompy/viz.py: muap_dict (average MUAP shapes per   *)
(* motor unit) and muap_plot (one page of the facetted chart).             *)
(*                                                                         *)
(* numpy arrays are records [shape, data]: shape is the tuple of           *)
(* dimensions, data the elements in row-major order.  Python positions are *)
(* 0-based; a TLA+ sequence holds Python position p at index p + 1.        *)
(* A channel mean is the exact fraction [num, den].                        *)
(***************************************************************************)
EXTENDS Integers, Sequences, FiniteSets, TLC

\* Bounds of the model.
MaxUnits == 2
MaxEvents == 3
NumSamples == 3
NumChannels == 2
MaxL == 2
MaxPage == 2
MaxCount == 13

\* Literals of the source.
MaxPlotsPerPage == 12
HardcodedEvents == 147

VARIABLES raw, pt0, pt, shape, prev, plot

vars == <<raw, pt0, pt, shape, prev, plot>>

NoCall == [kind |-> "none"]
\* What the module's namespace holds for a global name.
Unbound == [bound |-> FALSE]
BoundTo(v) == [bound |-> TRUE, value |-> v]

---------------------------------------------------------------------------
(* numpy *)

squeeze_first(a) ==
    IF a.shape = <<>> THEN a
    ELSE IF Len(a.shape) = 1
         THEN IF a.shape[1] = 0 THEN a
              ELSE [shape |-> <<>>, data |-> <<a.data[1]>>]
         ELSE [shape |-> Tail(a.shape),
               data |-> SubSeq(a.data, 1, Len(a.data) \div a.shape[1])]

\* ndarray.squeeze(): every axis of length 1 is removed, the data is kept.
squeeze(a) ==
    [shape |-> SelectSeq(a.shape, LAMBDA d : d # 1), data |-> a.data]

arange_shifted(lo, hi) == [p \in 1..(hi - lo) |-> lo + p]

\* np.arange(lo, hi)
arange(lo, hi) == [p \in 1..(hi - lo) |-> lo + p - 1]

full_next(n, v) == [p \in 1..n |-> v + 1]

\* np.full(n, v)
full(n, v) == [p \in 1..n |-> v]

\* np.zeros((rows, cols), dtype="int"), as a sequence of rows
zeros(rows, cols) == [r \in 1..rows |-> [p \in 1..cols |-> 0]]

\* np.tile(s, reps) for a 1-D s
RECURSIVE tile(_, _)
tile(s, reps) == IF reps <= 0 THEN <<>> ELSE s \o tile(s, reps - 1)

\* ndarray.flatten() of a 2-D array held as a sequence of rows
RECURSIVE flatten(_)
flatten(rows) == IF rows = <<>> THEN <<>> ELSE Head(rows) \o flatten(Tail(rows))

\* ndarray.reshape(rows, cols) of a 1-D array of rows * cols elements
reshape(s, rows, cols) ==
    [r \in 1..rows |-> SubSeq(s, (r - 1) * cols + 1, r * cols)]

\* An index into an axis of length n is legal in -n .. n-1; negative ones
\* count from the end.
InBounds(idx, n) == -n <= idx /\ idx < n

Position(idx, n) == IF idx < 0 THEN idx + n + 1 ELSE idx + 1

RECURSIVE SeqSum(_)
SeqSum(s) == IF s = <<>> THEN 0 ELSE Head(s) + SeqSum(Tail(s))

\* a[:, idx].mean(axis=0) for a 2-D a (sequence of channels) and a 1-D
\* integer index array
take_mean(a, idx) ==
    [p \in 1..Len(idx) |->
        [num |-> SeqSum([c \in 1..Len(a) |-> a[c][Position(idx[p], Len(a[c]))]]),
         den |-> Len(a)]]

---------------------------------------------------------------------------
(* emgdecompy.preprocessing.flatten_signal: every channel's segments are   *)
(* joined into one time axis, giving the channels x samples array.         *)

flatten_signal(source) == [c \in 1..Len(source) |-> flatten(source[c])]

---------------------------------------------------------------------------
(* The firing-time collection pt: an object array whose elements are the   *)
(* units' index arrays, or a regular 2-D integer array with one row per    *)
(* unit.                                                                   *)

\* pt[i] = x.  An element of an object array is rebound to x; a row of a
\* regular array keeps its shape and takes x's values (broadcast).
setitem(p, i, x) ==
    IF p.container = "object"
    THEN [p EXCEPT !.items[i] = x]
    ELSE [p EXCEPT !.items[i].data =
             IF x.shape = <<>>
             THEN [q \in 1..Len(@) |-> x.data[1]]
             ELSE x.data]

---------------------------------------------------------------------------
(* muap_dict *)

mu_key(i) == <<"mu", i>>

\* shape_dict[key] = value on a dict kept in insertion order
dict_set(d, key, value) ==
    IF \E e \in 1..Len(d) : d[e].key = key
    THEN [e \in 1..Len(d) |-> IF d[e].key = key
                              THEN [key |-> key, value |-> value] ELSE d[e]]
    ELSE Append(d, [key |-> key, value |-> value])

HasKey(d, key) == \E e \in 1..Len(d) : d[e].key = key

dict_get(d, key) == d[CHOOSE e \in 1..Len(d) : d[e].key = key].value

\* for j, k in enumerate(pt[i]): ptl[j] = ...; peak_index[j] = ...
RECURSIVE PeakLoop(_, _, _, _, _)
PeakLoop(data, l, j, ptl, peak_index) ==
    IF j >= Len(data) THEN [ptl |-> ptl, peak_index |-> peak_index]
    ELSE LET k == data[j + 1]
         IN PeakLoop(data, l, j + 1,
                     [ptl EXCEPT ![j + 1] = arange(k - l, k + l)],
                     [peak_index EXCEPT ![j + 1] = full(l * 2, j)])

\* The body of the loop over the units, after pt[i] was squeezed, for a = pt[i].
UnitShape(rawf, a, l) ==
    IF a.shape = <<>>
    THEN [kind |-> "IndexError"]
    ELSE LET n == a.shape[1]
             loop == PeakLoop(a.data, l, 0, zeros(n, l * 2), zeros(n, l * 2))
             ptl == flatten(loop.ptl)
             peak_index == flatten(loop.peak_index)
             sample == tile(arange(0, l * 2), n)
         IN IF \E p \in 1..Len(ptl) : ~InBounds(ptl[p], Len(rawf[1]))
            THEN [kind |-> "IndexError"]
            ELSE [kind |-> "ok",
                  record |-> [sample |-> sample,
                              signal |-> flatten(reshape(take_mean(rawf, ptl), n, l * 2)),
                              peak |-> peak_index]]

UnitOfFirst(p, i) == p.items[1]

\* pt[i]: the element the loop body of unit i reads.
UnitOf(p, i) == p.items[i + 1]

\* for i in range(pt.shape[0]): ...
RECURSIVE UnitsLoop(_, _, _, _, _)
UnitsLoop(rawf, p, l, i, shape_dict) ==
    IF i >= Len(p.items)
    THEN [kind |-> "ok", pt |-> p, dict |-> shape_dict]
    ELSE LET p1 == setitem(p, i + 1, squeeze(UnitOf(p, i)))
             u == UnitShape(rawf, UnitOf(p1, i), l)
         IN IF u.kind # "ok"
            THEN [kind |-> u.kind, pt |-> p1, dict |-> <<>>]
            ELSE UnitsLoop(rawf, p1, l, i + 1,
                           dict_set(shape_dict, mu_key(i), u.record))

muap_dict(source, p, l) == UnitsLoop(flatten_signal(source), p, l, 0, <<>>)

---------------------------------------------------------------------------
(* muap_plot *)

\* pd.DataFrame(record): one row per position of the three columns
DataFrame(record) ==
    [p \in 1..Len(record.sample) |->
        [sample |-> record.sample[p], signal |-> record.signal[p],
         peak |-> record.peak[p]]]

\* mu_df[a : b] for 0 <= a <= b
slice(df, a, b) ==
    LET hi == IF b < Len(df) THEN b ELSE Len(df)
    IN IF a >= hi THEN <<>> ELSE SubSeq(df, a + 1, hi)

PlotResult(kind, last_page, rows) ==
    [kind |-> kind, last_page |-> last_page, rows |-> rows]

\* g is what the free name l of muap_plot resolves to in the module's
\* namespace when the call runs: viz.py itself never binds it.
muap_plot(shape_dict, mu_index, page, count, g) ==
    IF ~HasKey(shape_dict, mu_key(mu_index))
    THEN PlotResult("KeyError", 0, <<>>)
    ELSE LET mu_df == DataFrame(dict_get(shape_dict, mu_key(mu_index)))
         IN IF ~g.bound
            THEN PlotResult("NameError", 0, <<>>)
            ELSE LET l == g.value
                     row_index == <<(page - 1) * (l * 2) * count,
                                    (page - 1) * (l * 2) * count + (l * 2) * count>>
                 IN IF count > MaxPlotsPerPage
                    THEN PlotResult("max_message", 0, <<>>)
                    ELSE LET last_page ==
                                 (Len(mu_df) \div (l * 2)) \div count
                                 + (IF HardcodedEvents % count > 0 THEN 1 ELSE 0)
                         IN IF page > last_page
                            THEN PlotResult("last_page_message", last_page, <<>>)
                            ELSE PlotResult("chart", last_page,
                                            slice(mu_df, row_index[1], row_index[2]))

---------------------------------------------------------------------------
(* Inputs *)

\* The samples of channel c (0-based) at time t (0-based).
SampleValue(c, t) == t * t + (c + 1) * (t + 2)

\* Every channel arrives as two segments.
RawSource ==
    [c \in 1..NumChannels |->
        << [t \in 1..1 |-> SampleValue(c - 1, t - 1)],
           [t \in 1..(NumSamples - 1) |-> SampleValue(c - 1, t)] >>]

RECURSIVE SortedSeq(_)
SortedSeq(S) ==
    IF S = {} THEN <<>>
    ELSE LET m == CHOOSE x \in S : \A y \in S : x <= y
         IN <<m>> \o SortedSeq(S \ {m})

\* Firing times of the units: increasing sample indices, at most MaxEvents
\* in the whole collection.
FiringSets ==
    UNION {{f \in [1..m -> SUBSET (0..NumSamples)] :
               SeqSum([i \in 1..m |-> Cardinality(f[i])]) <= MaxEvents} :
           m \in 0..MaxUnits}

Layout(kind, n) == IF kind = "row" THEN <<1, n>> ELSE <<n>>

ObjectInputs ==
    {[container |-> "object",
      items |-> [i \in 1..Len(f) |->
                    [shape |-> Layout(kind, Cardinality(f[i])),
                     data |-> SortedSeq(f[i])]]] :
        f \in FiringSets, kind \in {"flat", "row"}}

MatrixInputs ==
    {[container |-> "matrix",
      items |-> [i \in 1..Len(f) |->
                    [shape |-> <<Cardinality(f[i])>>, data |-> SortedSeq(f[i])]]] :
        f \in {g \in FiringSets :
                  /\ Len(g) >= 1
                  /\ \A i \in 1..Len(g) : Cardinality(g[i]) = Cardinality(g[1])}}

PtInputs == ObjectInputs \cup MatrixInputs

HalfWidths == 1..MaxL
Bindings == {Unbound} \cup {BoundTo(v) : v \in HalfWidths}

---------------------------------------------------------------------------
(* The calls.  raw and pt0 are the arguments as supplied, pt is the caller's *)
(* collection object, which muap_dict writes to.                            *)

Init ==
    /\ raw = RawSource
    /\ pt0 \in PtInputs
    /\ pt = pt0
    /\ shape = NoCall
    /\ prev = NoCall
    /\ plot = NoCall

\* shape_dict = muap_dict(raw, pt, l): shape is how the call ended, prev how
\* the call before it ended; plot speaks of the mapping in shape, so a new
\* mapping leaves it empty.
MuapDictCall ==
    \E l \in HalfWidths :
        LET r == muap_dict(raw, pt, l)
        IN /\ pt' = r.pt
           /\ prev' = shape
           /\ shape' = [kind |-> r.kind, l |-> l, dict |-> r.dict]
           /\ plot' = NoCall
           /\ UNCHANGED <<raw, pt0>>

\* muap_plot(shape_dict, mu_index, page, count) on the mapping of the latest
\* muap_dict call
MuapPlotCall ==
    /\ shape.kind = "ok"
    /\ \E mu_index \in 0..(MaxUnits - 1), page \in 1..MaxPage,
          count \in 1..MaxCount, g \in Bindings :
          LET r == muap_plot(shape.dict, mu_index, page, count, g)
          IN plot' = [kind |-> r.kind, last_page |-> r.last_page, rows |-> r.rows,
                      mu_index |-> mu_index, page |-> page, count |-> count,
                      binding |-> g]
    /\ UNCHANGED <<raw, pt0, pt, shape, prev>>

Next == MuapDictCall

NextPlot == MuapDictCall \/ MuapPlotCall

\* The extractor alone: any number of muap_dict calls on one collection.
Spec == Init /\ [][Next]_vars

\* The extractor and the renderer: muap_plot calls on the returned mappings.
SpecPlot == Init /\ [][NextPlot]_vars

---------------------------------------------------------------------------
(* What the claims speak about *)

NumUnits == Len(pt0.items)

\* The firing indices of unit i (0-based) as the caller supplied them.
Firings(i) == pt0.items[i + 1].data

InWindow(k, l) == k - l >= 0 /\ k + l <= NumSamples

AllInWindow(l) ==
    \A i \in 0..(NumUnits - 1) : \A j \in 1..Len(Firings(i)) : InWindow(Firings(i)[j], l)

DictCalled == shape.kind # "none"
DictReturned == shape.kind = "ok"

\* The mean over the channels of the raw signal at sample t (0-based).
ChannelMean(t) ==
    [num |-> SeqSum([c \in 1..NumChannels |-> SampleValue(c - 1, t)]),
     den |-> NumChannels]

\* C1: after any call whose firing indices all lie in [l, T - l], every unit
\* (whatever its number n of firing events, n = 1 included) has a record whose
\* sample, signal and peak all have length n * 2 * l.
C1_EveryCountGetsARecord ==
    (DictCalled /\ AllInWindow(shape.l)) =>
        /\ DictReturned
        /\ \A i \in 0..(NumUnits - 1) :
              /\ HasKey(shape.dict, mu_key(i))
              /\ LET rec == dict_get(shape.dict, mu_key(i))
                     len == Len(Firings(i)) * 2 * shape.l
                 IN /\ Len(rec.sample) = len
                    /\ Len(rec.signal) = len
                    /\ Len(rec.peak) = len

\* C2: in every returned record of a unit with n events, row p has
\* sample[p] = p mod 2l and peak[p] = p div 2l, for 0 <= p < n * 2l.
C2_SampleAndPeak ==
    DictReturned =>
        \A e \in 1..Len(shape.dict) :
            LET rec == shape.dict[e].value
                w == 2 * shape.l
                len == Len(pt0.items[e].data) * w
            IN /\ Len(rec.sample) = len
               /\ Len(rec.peak) = len
               /\ \A p \in 0..(len - 1) :
                     /\ rec.sample[p + 1] = p % w
                     /\ rec.peak[p + 1] = p \div w

C2_Witness ==
    /\ DictReturned
    /\ \E e \in 1..Len(shape.dict) :
          /\ Len(pt0.items[e].data) >= 2
          /\ Len(shape.dict[e].value.peak) = Len(pt0.items[e].data) * 2 * shape.l

\* C3: with every firing index in [l, T - l], the signal stored at offset o
\* of event j is the mean over the channels of raw[c, k_j - l + o].
C3_SignalIsChannelMean ==
    (DictReturned /\ AllInWindow(shape.l)) =>
        \A e \in 1..Len(shape.dict) :
            \A j \in 0..(Len(pt0.items[e].data) - 1) :
                \A o \in 0..(2 * shape.l - 1) :
                    shape.dict[e].value.signal[j * 2 * shape.l + o + 1]
                        = ChannelMean(pt0.items[e].data[j + 1] - shape.l + o)

C3_Witness ==
    /\ DictReturned
    /\ AllInWindow(shape.l)
    /\ \E e \in 1..Len(shape.dict) :
          /\ Len(pt0.items[e].data) >= 2
          /\ Len(shape.dict[e].value.signal) = Len(pt0.items[e].data) * 2 * shape.l

\* C4: a call with a firing index k such that k - l < 0 or k + l > T fails
\* with an out-of-range error.
C4_OutOfWindowFails ==
    (DictCalled /\ ~AllInWindow(shape.l)) => shape.kind = "IndexError"

\* The record of a unit with firing indices data, written out position by
\* position; an index below 0 counts from the end of the signal.
ExpectedRecord(data, l) ==
    LET w == 2 * l
        len == Len(data) * w
    IN [sample |-> [p \in 1..len |-> (p - 1) % w],
        signal |-> [p \in 1..len |->
                       ChannelMean((data[((p - 1) \div w) + 1] - l + ((p - 1) % w))
                                   % NumSamples)],
        peak |-> [p \in 1..len |-> (p - 1) \div w]]

\* C7: the returned mapping has one entry per unit, keyed mu_0 .. mu_(M-1)
\* in input order, and entry mu_i is the record of unit i's firing indices.
C7_OneEntryPerUnit ==
    DictReturned =>
        /\ Len(shape.dict) = NumUnits
        /\ \A i \in 0..(NumUnits - 1) :
              /\ shape.dict[i + 1].key = <<"mu", i>>
              /\ shape.dict[i + 1].value = ExpectedRecord(Firings(i), shape.l)

C7_Witness ==
    /\ DictReturned
    /\ Len(shape.dict) >= 2
    /\ Firings(0) # Firings(1)
    /\ Firings(0) # <<>>
    /\ Firings(1) # <<>>

\* C8: a call that follows a call with the same half-width on the same
\* collection ends as that call did (the same mapping, or the same error), and
\* the collection holds the same firing indices after every call as before it.
C8_SecondCallAgrees ==
    /\ (prev.kind # "none" /\ prev.l = shape.l) => prev = shape
    /\ Len(pt.items) = NumUnits
    /\ \A i \in 1..NumUnits : pt.items[i].data = pt0.items[i].data

C8_Witness ==
    /\ prev.kind = "ok"
    /\ shape.kind = "ok"
    /\ prev.l = shape.l
    /\ pt # pt0
    /\ \E i \in 1..NumUnits : Len(pt0.items[i].data) >= 2

---------------------------------------------------------------------------
(* The claims about muap_plot, for a call on an entry of the mapping *)

Plotted == plot.kind \notin {"none", "KeyError"}

\* The number of firing events of the record that was plotted.
PlottedEvents == Len(Firings(plot.mu_index))

PlottedTable == DataFrame(dict_get(shape.dict, mu_key(plot.mu_index)))

LastPageOf(events, count) ==
    (events \div count) + (IF events % count # 0 THEN 1 ELSE 0)

\* C5: with count in 1..12 the call answers 'Last page is page N.' exactly
\* when page > N = floor(E / count) + (1 if E mod count # 0 else 0), naming
\* that N, and returns a chart for every page in 1..N.
C5_LastPageMessage ==
    (Plotted /\ plot.count <= MaxPlotsPerPage) =>
        LET N == LastPageOf(PlottedEvents, plot.count)
        IN IF plot.page > N
           THEN plot.kind = "last_page_message" /\ plot.last_page = N
           ELSE plot.kind = "chart"

\* C6: with count > 12 the call returns the maximum-per-page message as its
\* result, whatever the page and the table.
C6_MaxPerPageMessage ==
    (Plotted /\ plot.count > MaxPlotsPerPage) => plot.kind = "max_message"

\* C9: a page that is not answered with the last-page message is drawn from
\* exactly the rows [(p-1)*2l*c, p*2l*c) of the record, cut at its end, where
\* l is the half-width the record was built with.
C9_RowsOfThePage ==
    (Plotted /\ plot.count <= MaxPlotsPerPage /\ plot.kind # "last_page_message") =>
        /\ plot.kind = "chart"
        /\ LET w == 2 * shape.l
               lo == (plot.page - 1) * w * plot.count
               end == plot.page * w * plot.count
               hi == IF end < Len(PlottedTable) THEN end ELSE Len(PlottedTable)
           IN plot.rows = [q \in 1..(hi - lo) |-> PlottedTable[lo + q]]

\* C10: for a record with E >= 1 events and count in 1..12, the pages drawn
\* are exactly the pages that hold a firing event, (p-1)*c < E, so that no
\* drawn page is empty and every event is on a drawn page.
C10_PagesCoverEvents ==
    (Plotted /\ PlottedEvents >= 1 /\ plot.count <= MaxPlotsPerPage) =>
        /\ plot.kind = "chart" <=> (plot.page - 1) * plot.count < PlottedEvents
        /\ plot.kind = "chart" => plot.rows # <<>>

====
